---- MODULE Spec2Model ----
(***************************************************************************)
(* Model of DICOMLabeler (src/label_manualv1.py): the annotation session   *)
(* (active slice, in-progress polygon, labeled polygons, label prompt) and *)
(* the polygon <-> mask conversion done on every slice change.             *)
(*                                                                         *)
(* Coordinates are doubled integers: the pixel in row r and column c has   *)
(* its centre at x = 2c, y = 2r, so that the half-pixel positions that     *)
(* find_contours produces at level 0.5 are integers too.  A point of a     *)
(* polygon is <<x, y>> as in the source; a contour point is <<r, c>>.      *)
(***************************************************************************)
EXTENDS Integers, Sequences, FiniteSets, TLC

\* ---------------------------------------------------------------- bounds
\* data_zyx.shape: the number of slices and the rows and columns of a slice.
NumSlices == 2
H == 5
W == 5
\* The longest Labeled Polygon list to which the prompt still appends.
MaxPolygons == 2

\* ------------------------------------------------------ program constants
\* len(contour) > 100 triggers approximate_polygon (doubled tolerance 1 -> 2).
SimplifyThreshold == 100
Tolerance2 == 2
\* initiate_finish_polygon: len(self.current_polygon) < 3 is refused.
MinPoints == 3

\* bone_colors: the recognized class codes.
bone_colors == {1, 2, 3, 4, 5, 6}

\* Python's None, among values that are one-element sequences otherwise.
None == << >>

Pixels == (0 .. H - 1) \X (0 .. W - 1)
ZeroMask == [p \in Pixels |-> 0]

Min2(a, b) == IF a < b THEN a ELSE b
Max2(a, b) == IF a > b THEN a ELSE b
SeqMin(s, k) == CHOOSE m \in {s[i][k] : i \in 1 .. Len(s)} :
                    \A i \in 1 .. Len(s) : m <= s[i][k]
SeqMax(s, k) == CHOOSE m \in {s[i][k] : i \in 1 .. Len(s)} :
                    \A i \in 1 .. Len(s) : m >= s[i][k]

\* ------------------------------------------------- skimage.draw.polygon
\* point_in_polygon (O'Rourke crossings test): edge i runs from vertex i-1
\* to vertex i, coordinates taken relative to the tested point (x, y); the
\* loop counts the crossings of the ray to the right and to the left.  The
\* sign of (x0*y1 - x1*y0) / (y1 - y0) is the sign of the product.  The
\* result is TRUE when the source returns INSIDE, VERTEX or EDGE (non-zero).
RECURSIVE CrossingsFrom(_, _, _, _, _, _)
CrossingsFrom(poly, i, x, y, r_cross, l_cross) ==
    IF i > Len(poly)
    THEN (r_cross % 2) # (l_cross % 2) \/ r_cross % 2 = 1
    ELSE LET j  == IF i = 1 THEN Len(poly) ELSE i - 1
             x0 == poly[i][1] - x
             y0 == poly[i][2] - y
             x1 == poly[j][1] - x
             y1 == poly[j][2] - y
             side == (x0 * y1 - x1 * y0) * (y1 - y0)
         IN  IF x0 = 0 /\ y0 = 0 THEN TRUE
             ELSE CrossingsFrom(poly, i + 1, x, y,
                      IF ((y0 > 0) # (y1 > 0)) /\ side > 0
                          THEN r_cross + 1 ELSE r_cross,
                      IF ((y0 < 0) # (y1 < 0)) /\ side < 0
                          THEN l_cross + 1 ELSE l_cross)

point_in_polygon(poly, x, y) == CrossingsFrom(poly, 1, x, y, 0, 0)

\* polygon(r, c, shape): the pixels of the clipped bounding box whose centre
\* passes point_in_polygon.  poly holds <<x, y>>; rows are y, columns are x.
polygon(poly) ==
    LET minr == Max2(0, SeqMin(poly, 2)) \div 2
        maxr == Min2(H - 1, (SeqMax(poly, 2) + 1) \div 2)
        minc == Max2(0, SeqMin(poly, 1)) \div 2
        maxc == Min2(W - 1, (SeqMax(poly, 1) + 1) \div 2)
    IN  {p \in (minr .. maxr) \X (minc .. maxc) :
            point_in_polygon(poly, 2 * p[2], 2 * p[1])}

\* A variant of the painting step in which a pixel that already has a class
\* keeps it (the first writer wins).
PaintOne_keep(label_array, pair) ==
    LET rrcc == polygon(pair[1])
    IN  [p \in Pixels |-> IF p \in rrcc /\ label_array[p] = 0
                              THEN pair[2] ELSE label_array[p]]

\* ------------------------------------------------------------- Encode
\* save_current_slice's loop: label_array[rr, cc] = label, in list order.
PaintOne(label_array, pair) ==
    LET rrcc == polygon(pair[1])
    IN  [p \in Pixels |-> IF p \in rrcc THEN pair[2] ELSE label_array[p]]

RECURSIVE PaintFrom(_, _, _)
PaintFrom(label_array, polys, i) ==
    IF i > Len(polys) THEN label_array
    ELSE PaintFrom(PaintOne(label_array, polys[i]), polys, i + 1)

Encode(polys) == PaintFrom(ZeroMask, polys, 1)

\* ------------------------------------------- skimage.measure.find_contours
\* _get_contour_segments: marching squares over every 2 x 2 square of the
\* binary image `img` (a set of pixels: label_array == label) at level 0.5,
\* rows outermost; fully_connected = 'low' in the two saddle cases 6 and 9.
\* Contour points are <<r, c>> (doubled), the crossing halfway on an edge.
Bit(img, r, c) == IF <<r, c>> \in img THEN 1 ELSE 0
SquareCase(img, r0, c0) ==
    Bit(img, r0, c0) + 2 * Bit(img, r0, c0 + 1)
        + 4 * Bit(img, r0 + 1, c0) + 8 * Bit(img, r0 + 1, c0 + 1)

SquareSegments(img, r0, c0) ==
    LET top    == <<2 * r0, 2 * c0 + 1>>
        bottom == <<2 * r0 + 2, 2 * c0 + 1>>
        left   == <<2 * r0 + 1, 2 * c0>>
        right  == <<2 * r0 + 1, 2 * c0 + 2>>
        sc     == SquareCase(img, r0, c0)
    IN  CASE sc = 1  -> << <<top, left>> >>
          [] sc = 2  -> << <<right, top>> >>
          [] sc = 3  -> << <<right, left>> >>
          [] sc = 4  -> << <<left, bottom>> >>
          [] sc = 5  -> << <<top, bottom>> >>
          [] sc = 6  -> << <<right, top>>, <<left, bottom>> >>
          [] sc = 7  -> << <<right, bottom>> >>
          [] sc = 8  -> << <<bottom, right>> >>
          [] sc = 9  -> << <<top, left>>, <<bottom, right>> >>
          [] sc = 10 -> << <<bottom, top>> >>
          [] sc = 11 -> << <<bottom, left>> >>
          [] sc = 12 -> << <<left, right>> >>
          [] sc = 13 -> << <<top, right>> >>
          [] sc = 14 -> << <<left, top>> >>
          [] OTHER   -> << >>

RECURSIVE SegmentsFrom(_, _)
SegmentsFrom(img, k) ==
    IF k >= (H - 1) * (W - 1) THEN << >>
    ELSE SquareSegments(img, k \div (W - 1), k % (W - 1))
             \o SegmentsFrom(img, k + 1)

\* _assemble_contours: contours are numbered in creation order; starts and
\* ends are the first and last points of the contours still open.
StartsAt(cs, pt) ==
    {i \in 1 .. Len(cs) : cs[i].alive /\ ~cs[i].closed /\ Head(cs[i].pts) = pt}
EndsAt(cs, pt) ==
    {i \in 1 .. Len(cs) :
        cs[i].alive /\ ~cs[i].closed /\ cs[i].pts[Len(cs[i].pts)] = pt}

AddSegment(cs, seg) ==
    LET from_point == seg[1]
        to_point   == seg[2]
        tails == StartsAt(cs, to_point)
        heads == EndsAt(cs, from_point)
    IN  IF tails # {} /\ heads # {}
        THEN LET tail_num == CHOOSE i \in tails : TRUE
                 head_num == CHOOSE i \in heads : TRUE
             IN  IF tail_num = head_num
                 THEN [cs EXCEPT ![head_num].pts = Append(@, to_point),
                                 ![head_num].closed = TRUE]
                 ELSE IF tail_num > head_num
                 THEN [cs EXCEPT ![head_num].pts = @ \o cs[tail_num].pts,
                                 ![tail_num].alive = FALSE]
                 ELSE [cs EXCEPT ![tail_num].pts = cs[head_num].pts \o @,
                                 ![head_num].alive = FALSE]
        ELSE IF tails = {} /\ heads = {}
        THEN Append(cs, [pts |-> <<from_point, to_point>>,
                         alive |-> TRUE, closed |-> FALSE])
        ELSE IF heads = {}
        THEN LET tail_num == CHOOSE i \in tails : TRUE
             IN  [cs EXCEPT ![tail_num].pts = <<from_point>> \o @]
        ELSE LET head_num == CHOOSE i \in heads : TRUE
             IN  [cs EXCEPT ![head_num].pts = Append(@, to_point)]

RECURSIVE AssembleFrom(_, _, _)
AssembleFrom(cs, segments, i) ==
    IF i > Len(segments) THEN cs
    ELSE AssembleFrom(AddSegment(cs, segments[i]), segments, i + 1)

RECURSIVE AliveFrom(_, _)
AliveFrom(cs, i) ==
    IF i > Len(cs) THEN << >>
    ELSE (IF cs[i].alive THEN <<cs[i].pts>> ELSE << >>) \o AliveFrom(cs, i + 1)

\* find_contours(label_array == label, 0.5): the contours, each a sequence
\* of <<r, c>>, in the order of the contour numbers.
find_contours(img) ==
    AliveFrom(AssembleFrom(<< >>, SegmentsFrom(img, 0), 1), 1)

\* ---------------------------------- skimage.measure.approximate_polygon
\* Douglas-Peucker: between start and end the point farthest from the line
\* through them (the first such) splits the chain while it is farther than
\* the tolerance.  With start = end (a closed contour) the source's angle
\* is 0 and the distance is |r - r0|.
Abs(a) == IF a < 0 THEN -a ELSE a
LineDist(coords, s, e, k) ==
    LET dr == coords[e][1] - coords[s][1]
        dc == coords[e][2] - coords[s][2]
    IN  IF dr = 0 /\ dc = 0
        THEN Abs(coords[k][1] - coords[s][1])
        ELSE Abs((coords[k][1] - coords[s][1]) * dc
                     - (coords[k][2] - coords[s][2]) * dr)
TooFar(coords, s, e, k) ==
    LET dr == coords[e][1] - coords[s][1]
        dc == coords[e][2] - coords[s][2]
        d  == LineDist(coords, s, e, k)
    IN  IF dr = 0 /\ dc = 0
        THEN d > Tolerance2
        ELSE d * d > Tolerance2 * Tolerance2 * (dr * dr + dc * dc)
ArgMax(coords, s, e) ==
    CHOOSE k \in s + 1 .. e - 1 :
        /\ \A j \in s + 1 .. e - 1 :
               LineDist(coords, s, e, j) <= LineDist(coords, s, e, k)
        /\ \A j \in s + 1 .. k - 1 :
               LineDist(coords, s, e, j) < LineDist(coords, s, e, k)

RECURSIVE ChainKeep(_, _, _)
ChainKeep(coords, s, e) ==
    IF e - s >= 2 /\ TooFar(coords, s, e, ArgMax(coords, s, e))
    THEN ChainKeep(coords, s, ArgMax(coords, s, e))
             \cup ChainKeep(coords, ArgMax(coords, s, e), e)
    ELSE {s, e}

RECURSIVE Pick(_, _, _)
Pick(coords, keep, i) ==
    IF i > Len(coords) THEN << >>
    ELSE (IF i \in keep THEN <<coords[i]>> ELSE << >>)
             \o Pick(coords, keep, i + 1)

approximate_polygon(coords) ==
    Pick(coords, ChainKeep(coords, 1, Len(coords)), 1)

\* ------------------------------------------------------------- Decode
\* load_slice_data's loop body for one label: a pair per contour, the
\* points turned from <<r, c>> into <<x, y>> = (pt[1], pt[0]).
PolyPoints(contour) ==
    LET ct == IF Len(contour) > SimplifyThreshold
              THEN approximate_polygon(contour) ELSE contour
    IN  [i \in 1 .. Len(ct) |-> <<ct[i][2], ct[i][1]>>]

ContourPairs(label_array, label) ==
    LET contours == find_contours({p \in Pixels : label_array[p] = label})
    IN  [i \in 1 .. Len(contours) |-> <<PolyPoints(contours[i]), label>>]

\* np.unique(label_array): the distinct values in ascending order, of which
\* label 0 is skipped.
RECURSIVE DecodeFrom(_, _)
DecodeFrom(label_array, labels) ==
    IF labels = {} THEN << >>
    ELSE LET label == CHOOSE l \in labels : \A m \in labels : l <= m
         IN  (IF label = 0 THEN << >> ELSE ContourPairs(label_array, label))
                 \o DecodeFrom(label_array, labels \ {label})

Decode(label_array) ==
    DecodeFrom(label_array, {label_array[p] : p \in Pixels})

\* ------------------------------------------------------------ the session
VARIABLES
    slice_labels,       \* self.slice_labels: slice index -> label array
    current_slice,      \* self.current_slice
    polygons,           \* self.polygons: sequence of <<points, label>>
    current_polygon,    \* self.current_polygon: sequence of <<x, y>>
    waiting_for_label,  \* self.waiting_for_label: the label dialog is open
    lastEvent,          \* the request the event loop delivered last
    np_save             \* what the last event handed to np.save / json.dump

vars == <<slice_labels, current_slice, polygons, current_polygon,
          waiting_for_label, lastEvent, np_save>>

Slices == 0 .. NumSlices - 1

\* The outlines the user traces with left clicks (<<x, y>>, doubled): a
\* triangle whose base is the first row of the slice, and one pixel inside
\* it clicked three times.
Tri == << <<0, 0>>, <<8, 0>>, <<4, 8>> >>
Dot == << <<4, 2>>, <<4, 2>>, <<4, 2>> >>
Outlines == {Tri, Dot}
ClickPoints == UNION {{o[i] : i \in 1 .. Len(o)} : o \in Outlines}
IsPrefix(s, t) == Len(s) <= Len(t) /\ \A i \in 1 .. Len(s) : s[i] = t[i]
Traces(pts) == \E o \in Outlines : IsPrefix(pts, o)

\* What simpledialog.askinteger can return: an integer or None (cancel).
PromptAnswers == {<<1>>, <<2>>, <<0>>, <<99>>, None}

NoSave == [npy |-> None, json |-> FALSE, raised |-> FALSE]

Init ==
    /\ slice_labels = [k \in Slices |-> ZeroMask]
    /\ current_slice = 0
    /\ polygons = << >>
    /\ current_polygon = << >>
    /\ waiting_for_label = FALSE
    /\ lastEvent = "start"
    /\ np_save = NoSave

\* A variant of save_current_slice that paints onto the slice's old label
\* array instead of a zero array.
save_current_slice_merge(labels, k, polys) ==
    [labels EXCEPT ![k] = PaintFrom(labels[k], polys, 1)]

\* save_current_slice: slice_labels[current_slice] = label_array.
save_current_slice(labels, k, polys) == [labels EXCEPT ![k] = Encode(polys)]

\* load_slice_data: self.polygons rebuilt from slice_labels[current_slice].
load_slice_data(labels, k) == Decode(labels[k])

\* A variant of initiate_finish_polygon without the test on the number of
\* points.
initiate_finish_polygon_any ==
    /\ waiting_for_label' = TRUE
    /\ lastEvent' = "finish"
    /\ np_save' = NoSave
    /\ UNCHANGED <<slice_labels, current_slice, polygons, current_polygon>>

\* A variant of the finish guard that lets two points through.
initiate_finish_polygon_two ==
    /\ waiting_for_label' =
           IF waiting_for_label THEN waiting_for_label
           ELSE IF Len(current_polygon) < MinPoints - 1 THEN FALSE
           ELSE TRUE
    /\ lastEvent' = "finish"
    /\ np_save' = NoSave
    /\ UNCHANGED <<slice_labels, current_slice, polygons, current_polygon>>

\* initiate_finish_polygon up to the blocking askinteger call: refused while
\* the dialog is open or with fewer than 3 points, else the dialog opens.
initiate_finish_polygon ==
    /\ waiting_for_label' =
           IF waiting_for_label THEN waiting_for_label
           ELSE IF Len(current_polygon) < MinPoints THEN FALSE
           ELSE TRUE
    /\ lastEvent' = "finish"
    /\ np_save' = NoSave
    /\ UNCHANGED <<slice_labels, current_slice, polygons, current_polygon>>

Ignored ==
    /\ lastEvent' = "ignored"
    /\ np_save' = NoSave
    /\ UNCHANGED <<slice_labels, current_slice, polygons, current_polygon,
                   waiting_for_label>>

\* on_click: button 1 inside the image axes appends the point, any other
\* button asks to finish.
on_click(inaxes, button, pt) ==
    IF waiting_for_label \/ ~inaxes
    THEN Ignored
    ELSE IF button = 1
    THEN /\ Traces(Append(current_polygon, pt))
         /\ current_polygon' = Append(current_polygon, pt)
         /\ lastEvent' = "add_point"
         /\ np_save' = NoSave
         /\ UNCHANGED <<slice_labels, current_slice, polygons,
                        waiting_for_label>>
    ELSE initiate_finish_polygon

\* A variant of on_key_press in which delete / backspace drops the first
\* point instead of the last.
on_key_press_first(key) ==
    IF waiting_for_label
    THEN Ignored
    ELSE IF key \in {"delete", "backspace"}
    THEN /\ current_polygon' =
                IF current_polygon # << >>
                THEN Tail(current_polygon)
                ELSE current_polygon
         /\ lastEvent' = "remove_last_point"
         /\ np_save' = NoSave
         /\ UNCHANGED <<slice_labels, current_slice, polygons,
                        waiting_for_label>>
    ELSE IF key = "c"
    THEN /\ current_polygon' = << >>
         /\ lastEvent' = "clear"
         /\ np_save' = NoSave
         /\ UNCHANGED <<slice_labels, current_slice, polygons,
                        waiting_for_label>>
    ELSE IF key = "enter"
    THEN initiate_finish_polygon
    ELSE Ignored

\* A variant of on_key_press without the waiting_for_label guard.
on_key_press_unguarded(key) ==
    IF key \in {"delete", "backspace"}
    THEN /\ current_polygon' =
                IF current_polygon # << >>
                THEN SubSeq(current_polygon, 1, Len(current_polygon) - 1)
                ELSE current_polygon
         /\ lastEvent' = "remove_last_point"
         /\ np_save' = NoSave
         /\ UNCHANGED <<slice_labels, current_slice, polygons,
                        waiting_for_label>>
    ELSE IF key = "c"
    THEN /\ current_polygon' = << >>
         /\ lastEvent' = "clear"
         /\ np_save' = NoSave
         /\ UNCHANGED <<slice_labels, current_slice, polygons,
                        waiting_for_label>>
    ELSE IF key = "enter"
    THEN initiate_finish_polygon
    ELSE Ignored

\* on_key_press: delete / backspace, c, enter.
on_key_press(key) ==
    IF waiting_for_label
    THEN Ignored
    ELSE IF key \in {"delete", "backspace"}
    THEN /\ current_polygon' =
                IF current_polygon # << >>
                THEN SubSeq(current_polygon, 1, Len(current_polygon) - 1)
                ELSE current_polygon
         /\ lastEvent' = "remove_last_point"
         /\ np_save' = NoSave
         /\ UNCHANGED <<slice_labels, current_slice, polygons,
                        waiting_for_label>>
    ELSE IF key = "c"
    THEN /\ current_polygon' = << >>
         /\ lastEvent' = "clear"
         /\ np_save' = NoSave
         /\ UNCHANGED <<slice_labels, current_slice, polygons,
                        waiting_for_label>>
    ELSE IF key = "enter"
    THEN initiate_finish_polygon
    ELSE Ignored

\* The Finish Polygon button.
btn_finish == initiate_finish_polygon

\* A variant of the registry test that takes any integer.
AcceptsLabel_any(label) == label # None

\* label is not None and label in self.bone_colors.
AcceptsLabel(label) == label # None /\ label[1] \in bone_colors

\* A variant of the prompt's return that empties the in-progress polygon
\* whatever the answer.
askinteger_returns_discards(label) ==
    /\ waiting_for_label
    /\ AcceptsLabel(label) => Len(polygons) < MaxPolygons
    /\ polygons' = IF AcceptsLabel(label)
                   THEN Append(polygons, <<current_polygon, label[1]>>)
                   ELSE polygons
    /\ current_polygon' = << >>
    /\ waiting_for_label' = FALSE
    /\ lastEvent' = "assign"
    /\ np_save' = NoSave
    /\ UNCHANGED <<slice_labels, current_slice>>

\* A variant of the prompt's return that keeps the dialog open after an
\* answer that is not accepted.
askinteger_returns_reprompt(label) ==
    /\ waiting_for_label
    /\ AcceptsLabel(label) => Len(polygons) < MaxPolygons
    /\ IF AcceptsLabel(label)
       THEN /\ polygons' = Append(polygons, <<current_polygon, label[1]>>)
            /\ current_polygon' = << >>
       ELSE UNCHANGED <<polygons, current_polygon>>
    /\ waiting_for_label' = ~AcceptsLabel(label)
    /\ lastEvent' = "assign"
    /\ np_save' = NoSave
    /\ UNCHANGED <<slice_labels, current_slice>>

\* A variant of the prompt's return that puts the new pair first in the list.
askinteger_returns_prepend(label) ==
    /\ waiting_for_label
    /\ AcceptsLabel(label) => Len(polygons) < MaxPolygons
    /\ IF AcceptsLabel(label)
       THEN /\ polygons' = << <<current_polygon, label[1]>> >> \o polygons
            /\ current_polygon' = << >>
       ELSE UNCHANGED <<polygons, current_polygon>>
    /\ waiting_for_label' = FALSE
    /\ lastEvent' = "assign"
    /\ np_save' = NoSave
    /\ UNCHANGED <<slice_labels, current_slice>>

\* askinteger returns and initiate_finish_polygon runs to its end.
askinteger_returns(label) ==
    /\ waiting_for_label
    /\ AcceptsLabel(label) => Len(polygons) < MaxPolygons
    /\ IF AcceptsLabel(label)
       THEN /\ polygons' = Append(polygons, <<current_polygon, label[1]>>)
            /\ current_polygon' = << >>
       ELSE UNCHANGED <<polygons, current_polygon>>
    /\ waiting_for_label' = FALSE
    /\ lastEvent' = "assign"
    /\ np_save' = NoSave
    /\ UNCHANGED <<slice_labels, current_slice>>

\* A variant of the slice change that writes the encoded polygons at the
\* index of the slice entered.
Navigate_target(target) ==
    LET saved == save_current_slice(slice_labels, target, polygons)
    IN  /\ slice_labels' = saved
        /\ current_slice' = target
        /\ polygons' = load_slice_data(saved, target)
        /\ UNCHANGED <<current_polygon, waiting_for_label>>

\* prev_slice / next_slice: encode the slice left, decode the slice entered.
Navigate(target) ==
    LET saved == save_current_slice(slice_labels, current_slice, polygons)
    IN  /\ slice_labels' = saved
        /\ current_slice' = target
        /\ polygons' = load_slice_data(saved, target)
        /\ UNCHANGED <<current_polygon, waiting_for_label>>

\* A variant of prev_slice that encodes and reloads the first slice when
\* there is no previous one.
prev_slice_reload ==
    /\ IF current_slice > 0
       THEN Navigate(current_slice - 1)
       ELSE Navigate(current_slice)
    /\ lastEvent' = "prev"
    /\ np_save' = NoSave

prev_slice ==
    /\ IF current_slice > 0
       THEN Navigate(current_slice - 1)
       ELSE UNCHANGED <<slice_labels, current_slice, polygons,
                        current_polygon, waiting_for_label>>
    /\ lastEvent' = "prev"
    /\ np_save' = NoSave

next_slice ==
    /\ IF current_slice < NumSlices - 1
       THEN Navigate(current_slice + 1)
       ELSE UNCHANGED <<slice_labels, current_slice, polygons,
                        current_polygon, waiting_for_label>>
    /\ lastEvent' = "next"
    /\ np_save' = NoSave

\* How the two writes of save_labels can end: both succeed, np.save raises,
\* or the write of label_metadata.json raises after np.save succeeded.
SaveOutcomes == {"ok", "npy_failed", "json_failed"}

\* A variant of save_labels that serializes the label volume as it is,
\* without encoding the active slice first.
save_labels_stale ==
    /\ slice_labels' = slice_labels
    /\ \E outcome \in SaveOutcomes :
           np_save' = [npy    |-> IF outcome = "npy_failed" THEN None
                                  ELSE <<slice_labels'>>,
                       json   |-> outcome = "ok",
                       raised |-> outcome # "ok"]
    /\ lastEvent' = "save"
    /\ UNCHANGED <<current_slice, polygons, current_polygon, waiting_for_label>>

\* A variant of save_labels that hands np.save the label volume as it was
\* before the active slice was encoded.
save_labels_before ==
    /\ slice_labels' = save_current_slice(slice_labels, current_slice, polygons)
    /\ \E outcome \in SaveOutcomes :
           np_save' = [npy    |-> IF outcome = "npy_failed" THEN None
                                  ELSE <<slice_labels>>,
                       json   |-> outcome = "ok",
                       raised |-> outcome # "ok"]
    /\ lastEvent' = "save"
    /\ UNCHANGED <<current_slice, polygons, current_polygon, waiting_for_label>>

\* save_labels: encode the active slice, then np.save, then json.dump; a
\* failing write raises and ends the handler there.
save_labels ==
    /\ slice_labels' = save_current_slice(slice_labels, current_slice, polygons)
    /\ \E outcome \in SaveOutcomes :
           np_save' = [npy    |-> IF outcome = "npy_failed" THEN None
                                  ELSE <<slice_labels'>>,
                       json   |-> outcome = "ok",
                       raised |-> outcome # "ok"]
    /\ lastEvent' = "save"
    /\ UNCHANGED <<current_slice, polygons, current_polygon, waiting_for_label>>

\* The mouse events delivered: a left click on a point of an outline, a
\* right click, and a click outside the image axes (on a button, say).
ClickEvents ==
    {[inaxes |-> TRUE, button |-> 1, pt |-> p] : p \in ClickPoints}
        \cup {[inaxes |-> TRUE, button |-> 3, pt |-> <<0, 0>>],
              [inaxes |-> FALSE, button |-> 1, pt |-> <<0, 0>>]}
Keys == {"delete", "backspace", "c", "enter", "x"}

\* visualize_3d, which __main__ calls once start_labeling has returned, that
\* is once plt.show() has returned because the window was closed: it encodes
\* the active slice and renders the label volume.  The window cannot finish
\* closing while a handler is still blocked in the label dialog.
visualize_3d ==
    /\ ~waiting_for_label
    /\ slice_labels' = save_current_slice(slice_labels, current_slice, polygons)
    /\ lastEvent' = "visualize"
    /\ np_save' = NoSave
    /\ UNCHANGED <<current_slice, polygons, current_polygon, waiting_for_label>>

\* The window is open and delivers events until visualize_3d has run.
WindowOpen == lastEvent # "visualize"

Next ==
    \/ \E event \in ClickEvents :
           WindowOpen /\ on_click(event.inaxes, event.button, event.pt)
    \/ \E key \in Keys : WindowOpen /\ on_key_press(key)
    \/ WindowOpen /\ btn_finish
    \/ \E label \in PromptAnswers : WindowOpen /\ askinteger_returns(label)
    \/ WindowOpen /\ prev_slice
    \/ WindowOpen /\ next_slice
    \/ WindowOpen /\ save_labels
    \/ WindowOpen /\ visualize_3d

Spec == Init /\ [][Next]_vars

\* The label dialog returns: simpledialog.askinteger blocks the handler only
\* until the user answers or cancels it.
AnswerPrompt ==
    \E label \in PromptAnswers : WindowOpen /\ askinteger_returns(label)

LiveSpec == Spec /\ WF_vars(AnswerPrompt)

\* ------------------------------------------------------------- the claims
Navigated == current_slice' # current_slice
NavigateRequest == lastEvent' \in {"prev", "next"}
RejectedAnswer ==
    \E label \in PromptAnswers : ~AcceptsLabel(label) /\ askinteger_returns(label)

\* C1: navigating away from a slice whose Labeled Polygon Set was not edited
\* since it was decoded (it still equals Decode of the slice's label array)
\* leaves the label array of that slice unchanged.
C1_NavigationIdempotent ==
    [][(Navigated /\ polygons = Decode(slice_labels[current_slice]))
           => slice_labels'[current_slice] = slice_labels[current_slice]]_vars

C3_NavigationBlockedWhileWaiting ==
    [][(waiting_for_label /\ NavigateRequest)
           => UNCHANGED <<current_slice, slice_labels, polygons,
                          current_polygon>>]_vars

\* C4: after a navigate from Browsing or Drawing that changes the active
\* slice the in-progress polygon is empty and the dialog is closed.
C4_NavigateDiscardsInProgress ==
    [][(~waiting_for_label /\ Navigated)
           => current_polygon' = << >> /\ ~waiting_for_label']_vars

\* C5: a finish request outside AwaitingLabel opens the label dialog exactly
\* when the in-progress polygon has 3 or more points; either way it leaves
\* the in-progress polygon, the Labeled Polygon Set, the label volume and
\* the active slice as they were.
C5_FinishGuard ==
    [][(lastEvent' = "finish" /\ ~waiting_for_label)
           => /\ waiting_for_label' = (Len(current_polygon) >= 3)
              /\ UNCHANGED <<current_polygon, polygons, slice_labels,
                             current_slice>>]_vars

\* A finish request with two points has been refused.
C5_Witness ==
    /\ lastEvent = "finish"
    /\ Len(current_polygon) = 2
    /\ ~waiting_for_label

\* C6: every class code in the Labeled Polygon Set is a registry code 1..6
\* (never 0) and every value of the label volume is 0 or a registry code.
C6_ClassCodes ==
    /\ \A i \in 1 .. Len(polygons) : polygons[i][2] \in 1 .. 6
    /\ \A k \in Slices : \A p \in Pixels : slice_labels[k][p] \in 0 .. 6

\* The Labeled Polygon Set holds a decoded contour and, after it, a polygon
\* committed by the prompt.
C6_Witness ==
    /\ lastEvent = "assign"
    /\ Len(polygons) = 2
    /\ polygons[1][1] \notin Outlines
    /\ polygons[2][1] \in Outlines

\* For each pixel the class of the last pair, in list order, whose filled
\* polygon holds the pixel, and 0 when no polygon holds it: the pairs are
\* visited from the last to the first and a pixel keeps the first class found.
RECURSIVE LastWriterFrom(_, _, _)
LastWriterFrom(polys, i, found) ==
    IF i = 0 THEN [p \in Pixels \ found |-> 0]
    ELSE LET here == polygon(polys[i][1]) \ found
         IN  [p \in here |-> polys[i][2]]
                 @@ LastWriterFrom(polys, i - 1, found \cup here)
LastWriter(polys) == LastWriterFrom(polys, Len(polys), {})

\* C7: when save has encoded the active slice, each of its pixels holds the
\* class of the last pair in list order whose polygon holds the pixel, and 0
\* if no polygon does.
C7_LastWriterWins ==
    lastEvent = "save" => slice_labels[current_slice] = LastWriter(polygons)

\* P1 of class 1 then P2 of class 2 have been encoded: a pixel of both is 2
\* and a pixel of P1 alone is 1.
C7_Witness ==
    /\ lastEvent = "save"
    /\ Len(polygons) = 2
    /\ polygons[1][2] = 1
    /\ polygons[2][2] = 2
    /\ \E p \in polygon(polygons[1][1]) \cap polygon(polygons[2][1]) :
           slice_labels[current_slice][p] = 2
    /\ \E p \in polygon(polygons[1][1]) \ polygon(polygons[2][1]) :
           slice_labels[current_slice][p] = 1

\* C8: returning to a slice k that holds one polygon P of class c, drawn on
\* an all-zero volume and encoded when k was left: label_volume[k] is c on
\* the pixels of P and 0 elsewhere, the Labeled Polygon Set is exactly one
\* polygon of class c, and every other slice is all zero.
C8_AnnotationSurvives ==
    [][\A P \in Outlines : \A c \in bone_colors :
          (/\ Navigated
           /\ polygons = << >>
           /\ slice_labels[current_slice'] = Encode(<< <<P, c>> >>)
           /\ \A m \in Slices \ {current_slice'} : slice_labels[m] = ZeroMask)
          => /\ \A p \in Pixels :
                    slice_labels'[current_slice'][p] =
                        IF p \in polygon(P) THEN c ELSE 0
             /\ Len(polygons') = 1
             /\ polygons'[1][2] = c
             /\ \A m \in Slices \ {current_slice'} :
                    slice_labels'[m] = ZeroMask]_vars

\* C9: a navigate from slice i to slice j leaves label_volume[i] equal to
\* Encode of the Labeled Polygon Set held before it (pixels no polygon
\* holds are 0 whatever label_volume[i] held), the Labeled Polygon Set equal
\* to Decode(label_volume[j]), and every slice other than i unchanged.
C9_SyncAtExitAndEntry ==
    [][Navigated
           => /\ slice_labels'[current_slice] = Encode(polygons)
              /\ \A p \in Pixels :
                     (\A i \in 1 .. Len(polygons) : p \notin polygon(polygons[i][1]))
                         => slice_labels'[current_slice][p] = 0
              /\ polygons' = Decode(slice_labels'[current_slice'])
              /\ \A m \in Slices \ {current_slice} :
                     slice_labels'[m] = slice_labels[m]]_vars

\* A navigate has entered a labeled slice and left a labeled slice behind.
C9_Witness ==
    /\ lastEvent \in {"prev", "next"}
    /\ polygons # << >>
    /\ \E m \in Slices \ {current_slice} : slice_labels[m] # ZeroMask

\* C10 as claimed: a save whose persistence step fails leaves every slice of
\* the label volume as it was before save was invoked.
C10_FailedSaveLeavesVolume ==
    [][(lastEvent' = "save" /\ np_save'.raised)
           => slice_labels' = slice_labels]_vars

\* C10 as amended: a save whose persistence step fails has changed the label
\* volume by its encode step alone: the active slice equals Encode of the
\* Labeled Polygon Set and every other slice is as it was before save.
C10_FailedSaveKeepsEncode ==
    [][(lastEvent' = "save" /\ np_save'.raised)
           => /\ slice_labels'[current_slice] = Encode(polygons)
              /\ \A m \in Slices \ {current_slice} :
                     slice_labels'[m] = slice_labels[m]
              /\ UNCHANGED <<current_slice, polygons>>]_vars

\* A save has failed on a slice with a committed polygon.
C10_Witness ==
    /\ lastEvent = "save"
    /\ np_save.raised
    /\ polygons # << >>
    /\ slice_labels[current_slice] # ZeroMask

\* C11: save leaves label_volume[active] equal to Encode of the Labeled
\* Polygon Set; the active slice index, the Labeled Polygon Set, the
\* in-progress polygon, the session state and every other slice are
\* unchanged; and the volume np.save receives is the volume after the encode.
C11_SaveEncodesInPlace ==
    [][lastEvent' = "save"
           => /\ slice_labels'[current_slice] = Encode(polygons)
              /\ \A m \in Slices \ {current_slice} :
                     slice_labels'[m] = slice_labels[m]
              /\ UNCHANGED <<current_slice, polygons, current_polygon,
                             waiting_for_label>>
              /\ np_save'.npy # None => np_save'.npy = <<slice_labels'>>]_vars

\* A save has gone through on a slice with a committed polygon: np.save
\* received a volume whose active slice is labeled.
C11_Witness ==
    /\ lastEvent = "save"
    /\ ~np_save.raised
    /\ np_save.npy = <<slice_labels>>
    /\ polygons # << >>
    /\ slice_labels[current_slice] # ZeroMask

\* Browsing: no in-progress polygon and no label dialog open.
Browsing == current_polygon = << >> /\ ~waiting_for_label

\* The requests whose handlers have a step to take in this state: applied
\* or a no-op, never refused or blocked.  (A left click is one that follows
\* an outline, and an accepted answer one the list bound has room for.)
InputsHandled ==
    /\ \A event \in ClickEvents :
           (\/ waiting_for_label \/ ~event.inaxes \/ event.button # 1
            \/ Traces(Append(current_polygon, event.pt)))
               => ENABLED on_click(event.inaxes, event.button, event.pt)
    /\ \A key \in Keys : ENABLED on_key_press(key)
    /\ ENABLED btn_finish
    /\ ENABLED save_labels
    /\ waiting_for_label
           => \A label \in PromptAnswers :
                  (AcceptsLabel(label) => Len(polygons) < MaxPolygons)
                      => ENABLED askinteger_returns(label)

\* C12: while the window is open every drawing, finish and save request and
\* every prompt answer is handled; a navigate request, handled or not,
\* leaves the dialog as it was; whatever the prompt answers, the dialog is
\* closed after it; a session that is awaiting a label leaves that state
\* once the prompt returns; and Browsing is reachable from every state: the
\* prompt's return ends the waiting, and from there the clear key leads to
\* Browsing.
C12_NeverStuck ==
    /\ [](WindowOpen => InputsHandled)
    /\ [][NavigateRequest => waiting_for_label' = waiting_for_label]_vars
    /\ [][(\E label \in PromptAnswers : askinteger_returns(label))
              => ~waiting_for_label']_vars
    /\ [][(~waiting_for_label /\ on_key_press("c")) => Browsing']_vars
    /\ (waiting_for_label ~> ~waiting_for_label)

\* The dialog was answered with a class and the session is in Browsing again
\* with the outline committed.
C12_Witness ==
    /\ lastEvent = "assign"
    /\ Browsing
    /\ Len(polygons) = 1
    /\ polygons[1][1] = Tri

\* C13: the active slice index is always one of 0 .. S-1; away from a
\* boundary a navigate request changes it by exactly 1 in the direction asked
\* for; previous at index 0 and next at index S-1 leave the index, the label
\* volume and the Labeled Polygon Set unchanged; no other step changes it.
C13_SliceBounds ==
    [][/\ current_slice \in Slices
       /\ current_slice' \in Slices
       /\ lastEvent' = "prev"
              => IF current_slice > 0
                 THEN current_slice' = current_slice - 1
                 ELSE UNCHANGED <<current_slice, slice_labels, polygons>>
       /\ lastEvent' = "next"
              => IF current_slice < NumSlices - 1
                 THEN current_slice' = current_slice + 1
                 ELSE UNCHANGED <<current_slice, slice_labels, polygons>>
       /\ ~NavigateRequest => current_slice' = current_slice]_vars

\* Previous was asked for on the first slice while it held a committed
\* polygon that is not encoded yet: nothing was encoded.
C13_Witness ==
    /\ lastEvent = "prev"
    /\ current_slice = 0
    /\ polygons # << >>
    /\ slice_labels[0] = ZeroMask

\* C14: a prompt answer that is a recognized class code c, given while
\* polygon P is pending, leaves the Labeled Polygon Set equal to its previous
\* contents in the same order followed by (P, c); the in-progress polygon is
\* empty and the dialog closed (Browsing); the label volume and the active
\* slice index are unchanged.
C14_AssignCommitsOnePair ==
    [][\A label \in PromptAnswers :
          (AcceptsLabel(label) /\ askinteger_returns(label))
              => /\ Len(polygons') = Len(polygons) + 1
                 /\ \A i \in 1 .. Len(polygons) : polygons'[i] = polygons[i]
                 /\ polygons'[Len(polygons')] = <<current_polygon, label[1]>>
                 /\ Len(current_polygon) >= MinPoints
                 /\ Browsing'
                 /\ UNCHANGED <<slice_labels, current_slice>>]_vars

\* Two different outlines have been committed one after the other.
C14_Witness ==
    /\ lastEvent = "assign"
    /\ Browsing
    /\ Len(polygons) = 2
    /\ polygons[1][1] \in Outlines
    /\ polygons[2][1] \in Outlines
    /\ polygons[1][1] # polygons[2][1]

\* C15: while the label dialog is open no click or key is applied as a
\* drawing request; a click, key or finish request leaves the pending
\* polygon, the Labeled Polygon Set, the label volume and the state
\* unchanged (no second dialog); no step at all changes the pending polygon
\* while the dialog stays open; and the polygon committed when the prompt
\* returns is the pending polygon.
C15_DrawingRejectedWhileWaiting ==
    [][waiting_for_label
           => /\ lastEvent' \notin {"add_point", "remove_last_point", "clear"}
              /\ lastEvent' \in {"ignored", "finish"}
                     => UNCHANGED <<current_polygon, polygons, slice_labels,
                                    current_slice, waiting_for_label>>
              /\ waiting_for_label' => current_polygon' = current_polygon
              /\ (lastEvent' = "assign" /\ polygons' # polygons)
                     => polygons'[Len(polygons')][1] = current_polygon]_vars

\* A click or a key has been ignored while the dialog is open.
C15_Witness ==
    /\ lastEvent = "ignored"
    /\ waiting_for_label
    /\ Len(current_polygon) >= MinPoints

\* C16: every point of the in-progress (or pending) polygon was added while
\* the slice that is active now was the active slice.  The points a step
\* leaves in the in-progress polygon were all there before it, except the
\* one a click adds, and a click does not change the slice; so this holds in
\* every reachable state exactly when every step that changes the active
\* slice leaves the in-progress polygon empty, in any session state.
C16_DrawnOnActiveSlice ==
    [][Navigated => current_polygon' = << >>]_vars

\* Drawing: an in-progress polygon with at least one point, no dialog open.
Drawing == current_polygon # << >> /\ ~waiting_for_label

\* C17: a click, key, finish request or prompt answer leaves every slice of
\* the label volume unchanged; no step changes a slice other than the one
\* active when it began; and a step that changes the label volume leaves
\* that slice equal to Encode of the Labeled Polygon Set.
C17_VolumeWrittenByEncode ==
    [][/\ lastEvent' \in {"add_point", "remove_last_point", "clear", "finish",
                          "assign", "ignored"}
              => slice_labels' = slice_labels
       /\ \A m \in Slices \ {current_slice} :
              slice_labels'[m] = slice_labels[m]
       /\ slice_labels' # slice_labels
              => slice_labels'[current_slice] = Encode(polygons)]_vars

\* Next has left the first slice: its polygon was encoded there and the
\* slice entered is still all zero.
C17_Witness ==
    /\ lastEvent = "next"
    /\ current_slice = 1
    /\ slice_labels[0] # ZeroMask
    /\ slice_labels[1] = ZeroMask

\* C18: every pair the prompt's return adds to the Labeled Polygon Set has a
\* polygon of at least 3 points.
C18_NoDegeneratePolygon ==
    [][lastEvent' = "assign"
           => \A i \in 1 .. Len(polygons') :
                  (i > Len(polygons) \/ polygons'[i] # polygons[i])
                      => Len(polygons'[i][1]) >= 3]_vars

\* The outline of three coincident points has been committed.
C18_Witness ==
    /\ lastEvent = "assign"
    /\ Len(polygons) = 1
    /\ polygons[1][1] = Dot

\* C19: outside AwaitingLabel, remove_last_point drops exactly the last
\* point (the others keep their order), leaving Drawing if points remain
\* and Browsing if none does, and does nothing to an empty polygon; clear
\* empties the in-progress polygon whatever its length; neither changes the
\* Labeled Polygon Set, the label volume or the active slice index.
C19_UndoAndClear ==
    [][~waiting_for_label
           => /\ lastEvent' = "remove_last_point"
                     => /\ current_polygon' =
                               IF current_polygon = << >> THEN << >>
                               ELSE [i \in 1 .. Len(current_polygon) - 1
                                        |-> current_polygon[i]]
                        /\ Len(current_polygon) > 1 => Drawing'
                        /\ Len(current_polygon) <= 1 => Browsing'
              /\ lastEvent' = "clear" => Browsing'
              /\ lastEvent' \in {"remove_last_point", "clear"}
                     => UNCHANGED <<polygons, slice_labels, current_slice>>]_vars

\* The last of three points has been removed: the first two remain.
C19_Witness ==
    /\ lastEvent = "remove_last_point"
    /\ current_polygon = <<Tri[1], Tri[2]>>
    /\ ~waiting_for_label

\* C20: visualize_3d leaves the label volume, the Labeled Polygon Set, the
\* in-progress polygon and the active slice index unchanged.
C20_ReviewIsPureSink ==
    [][lastEvent' = "visualize"
           => UNCHANGED <<slice_labels, polygons, current_polygon,
                          current_slice>>]_vars

====
